---- MODULE Spec2Model ----
(***************************************************************************)
(* Model of src/main.go of go-handbook.                                    *)
(*                                                                         *)
(* Two programs live in that file:                                         *)
(*   - the demo program (lines 1-49): greet / isEven / the parity loop;    *)
(*   - the "Language Overview" snippet (lines 177-202): three workers send *)
(*     one message each on a buffered channel, a closer goroutine closes   *)
(*     the channel after wg.Wait(), main ranges over the channel.          *)
(*                                                                         *)
(* Spec       : the snippet exactly as written (3 workers).                *)
(* FairSpec   : Spec with weak fairness of every goroutine step.           *)
(* SpecN      : the snippet with the launch loop's upper bound drawn from  *)
(*              0..NumWorkers (the literal 3 of line 182 made an input).   *)
(* SpecParity : the parity loop of the demo program and calls of isEven.   *)
(***************************************************************************)
EXTENDS Integers, Sequences, FiniteSets, TLC

VARIABLES
    n,          \* upper bound of the launch loop (3 in the source)
    mainPc,     \* position of main: "loop", "go", "range", "done"
    i,          \* loop variable of the launch loop
    wg,         \* counter of the sync.WaitGroup
    workerPc,   \* position of worker(id): "none", "send", "deferred", "exit"
    closerPc,   \* position of the closer goroutine: "none", "wait", "close", "exit"
    messages,   \* buffer of the channel `messages`
    closed,     \* whether the channel is closed
    received,   \* what the range loop has printed, in order
    sent,       \* history: ids in the order their sends completed
    closeCount, \* history: number of close(messages) executed
    panic,      \* "none" or the runtime panic that crashed the program
    pPc,        \* parity loop position: "idle", "for", "done"
    pI,         \* loop variable of the parity loop
    out,        \* lines printed by the parity loop
    probeN,     \* argument of a call of isEven
    probeCalled,\* whether that call has returned
    probeRes    \* its result

dispVars == <<n, mainPc, i, wg, workerPc, closerPc, messages, closed,
              received, sent, closeCount, panic>>
parityVars == <<pPc, pI, out, probeN, probeCalled, probeRes>>
vars == <<n, mainPc, i, wg, workerPc, closerPc, messages, closed,
          received, sent, closeCount, panic,
          pPc, pI, out, probeN, probeCalled, probeRes>>

(***************************************************************************)
(* Program constants and bounds                                            *)
(***************************************************************************)
NumWorkers == 3

CapMut == 2

Cap == 3

ParityLast == 5

MaxAbs == 6

Workers == 1..NumWorkers

ProbeInts == (0 - MaxAbs)..MaxAbs

(***************************************************************************)
(* Helpers of the snippet                                                  *)
(***************************************************************************)
\* fmt.Sprintf("Worker %d completed task", id)
workerMsgMut(id) == "Worker " \o ToString(id + 1) \o " completed task"

workerMsg(id) == "Worker " \o ToString(id) \o " completed task"

\* condition of `for i := 1; i <= 3; i++`
LoopCondMut(k, bound) == k <= bound \/ k = 1

LoopCond(k, bound) == k <= bound

\* wg.Wait() returns when the counter is zero
WaitReturnsMut(c) == TRUE

WaitReturns(c) == c = 0

\* wg.Done() is wg.Add(-1)
WgDoneMut(c) == c

WgDone(c) == c - 1

\* a buffered send appends at the back of the channel's queue
ChanPutMut(q, m) == <<m>> \o q

ChanPut(q, m) == Append(q, m)

\* `range` over a channel ends when the channel is closed and drained
RangeDoneMut(q, cl) == cl

RangeEndsEmptyMut(q, cl) == Len(q) = 0

RangeDone(q, cl) == Len(q) = 0 /\ cl

(***************************************************************************)
(* The snippet: main                                                       *)
(***************************************************************************)
InitDispatch(bound) ==
    /\ n = bound
    /\ mainPc = "loop"
    /\ i = 1
    /\ wg = 0
    /\ workerPc = [id \in Workers |-> "none"]
    /\ closerPc = "none"
    /\ messages = <<>>
    /\ closed = FALSE
    /\ received = <<>>
    /\ sent = <<>>
    /\ closeCount = 0
    /\ panic = "none"

\* line 183: wg.Add(1)
MainAdd ==
    /\ panic = "none"
    /\ mainPc = "loop"
    /\ LoopCond(i, n)
    /\ wg' = wg + 1
    /\ mainPc' = "go"
    /\ UNCHANGED <<n, i, workerPc, closerPc, messages, closed, received,
                   sent, closeCount, panic>>

\* line 184: go worker(i, messages, &wg); then i++
MainGo ==
    /\ panic = "none"
    /\ mainPc = "go"
    /\ workerPc' = [workerPc EXCEPT ![i] = "send"]
    /\ i' = i + 1
    /\ mainPc' = "loop"
    /\ UNCHANGED <<n, wg, closerPc, messages, closed, received, sent,
                   closeCount, panic>>

\* lines 188-191: the loop is over, go func() { wg.Wait(); close(messages) }()
MainSpawnCloser ==
    /\ panic = "none"
    /\ mainPc = "loop"
    /\ ~LoopCond(i, n)
    /\ closerPc' = "wait"
    /\ mainPc' = "range"
    /\ UNCHANGED <<n, i, wg, workerPc, messages, closed, received, sent,
                   closeCount, panic>>

\* lines 194-196: one iteration of `for msg := range messages`
MainRecv ==
    /\ panic = "none"
    /\ mainPc = "range"
    /\ Len(messages) > 0
    /\ received' = Append(received, Head(messages))
    /\ messages' = Tail(messages)
    /\ UNCHANGED <<n, mainPc, i, wg, workerPc, closerPc, closed, sent,
                   closeCount, panic>>

\* line 194: the range loop ends, main returns
MainRangeEnd ==
    /\ panic = "none"
    /\ mainPc = "range"
    /\ RangeDone(messages, closed)
    /\ mainPc' = "done"
    /\ UNCHANGED <<n, i, wg, workerPc, closerPc, messages, closed, received,
                   sent, closeCount, panic>>

(***************************************************************************)
(* The snippet: worker                                                     *)
(***************************************************************************)
\* line 201: ch <- fmt.Sprintf(...); blocks while the buffer is full,
\* panics when the channel is closed
WorkerSend(id) ==
    /\ panic = "none"
    /\ workerPc[id] = "send"
    /\ IF closed
         THEN /\ panic' = "send on closed channel"
              /\ UNCHANGED <<messages, sent, workerPc>>
         ELSE /\ Len(messages) < Cap
              /\ messages' = ChanPut(messages, workerMsg(id))
              /\ sent' = Append(sent, id)
              /\ workerPc' = [workerPc EXCEPT ![id] = "deferred"]
              /\ UNCHANGED panic
    /\ UNCHANGED <<n, mainPc, i, wg, closerPc, closed, received, closeCount>>

\* line 200: the deferred wg.Done() runs when worker returns
WorkerDone(id) ==
    /\ panic = "none"
    /\ workerPc[id] = "deferred"
    /\ IF WgDone(wg) < 0
         THEN /\ panic' = "negative WaitGroup counter"
              /\ UNCHANGED <<wg, workerPc>>
         ELSE /\ wg' = WgDone(wg)
              /\ workerPc' = [workerPc EXCEPT ![id] = "exit"]
              /\ UNCHANGED panic
    /\ UNCHANGED <<n, mainPc, i, closerPc, messages, closed, received, sent,
                   closeCount>>

(***************************************************************************)
(* The snippet: closer goroutine                                           *)
(***************************************************************************)
\* line 189: wg.Wait()
CloserWait ==
    /\ panic = "none"
    /\ closerPc = "wait"
    /\ WaitReturns(wg)
    /\ closerPc' = "close"
    /\ UNCHANGED <<n, mainPc, i, wg, workerPc, messages, closed, received,
                   sent, closeCount, panic>>

\* line 190: close(messages); panics when the channel is already closed
CloserClose ==
    /\ panic = "none"
    /\ closerPc = "close"
    /\ IF closed
         THEN /\ panic' = "close of closed channel"
              /\ UNCHANGED <<closed, closeCount, closerPc>>
         ELSE /\ closed' = TRUE
              /\ closeCount' = closeCount + 1
              /\ closerPc' = "exit"
              /\ UNCHANGED panic
    /\ UNCHANGED <<n, mainPc, i, wg, workerPc, messages, received, sent>>

(***************************************************************************)
(* The demo program: isEven and the parity loop                            *)
(***************************************************************************)
\* Go's % truncates toward zero: the remainder has the sign of the dividend
GoRem(a, b) == IF a >= 0 THEN a % b ELSE 0 - ((0 - a) % b)

\* lines 16-18
isEvenMut(k) == GoRem(k, 2) # 1

isEven(k) == GoRem(k, 2) = 0

\* fmt.Printf("%d is even\n", i) / fmt.Printf("%d is odd\n", i)
parityLine(k) ==
    IF isEven(k) THEN ToString(k) \o " is even\n"
                 ELSE ToString(k) \o " is odd\n"

ParityIdle ==
    /\ pPc = "idle"
    /\ pI = 1
    /\ out = <<>>
    /\ probeN = 0
    /\ probeCalled = FALSE
    /\ probeRes = FALSE

DispatchIdle ==
    /\ n = NumWorkers
    /\ mainPc = "idle"
    /\ i = 1
    /\ wg = 0
    /\ workerPc = [id \in Workers |-> "none"]
    /\ closerPc = "none"
    /\ messages = <<>>
    /\ closed = FALSE
    /\ received = <<>>
    /\ sent = <<>>
    /\ closeCount = 0
    /\ panic = "none"

\* lines 27-33: one iteration of the loop
ParityIter ==
    /\ pPc = "for"
    /\ pI <= ParityLast
    /\ out' = Append(out, parityLine(pI))
    /\ pI' = pI + 1
    /\ UNCHANGED <<pPc, probeN, probeCalled, probeRes>>
    /\ UNCHANGED dispVars

\* line 27: the condition i <= 5 fails, the loop is left
ParityExit ==
    /\ pPc = "for"
    /\ ~(pI <= ParityLast)
    /\ pPc' = "done"
    /\ UNCHANGED <<pI, out, probeN, probeCalled, probeRes>>
    /\ UNCHANGED dispVars

\* a call isEven(probeN) returns
CallIsEven ==
    /\ ~probeCalled
    /\ probeRes' = isEven(probeN)
    /\ probeCalled' = TRUE
    /\ UNCHANGED <<pPc, pI, out, probeN>>
    /\ UNCHANGED dispVars

(***************************************************************************)
(* Specifications                                                          *)
(***************************************************************************)
Init == InitDispatch(NumWorkers) /\ ParityIdle

InitN == (\E bound \in 0..NumWorkers : InitDispatch(bound)) /\ ParityIdle

InitParity ==
    /\ DispatchIdle
    /\ pPc = "for"
    /\ pI = 1
    /\ out = <<>>
    /\ probeN \in ProbeInts
    /\ probeCalled = FALSE
    /\ probeRes = FALSE

Next ==
    \/ MainAdd /\ UNCHANGED parityVars
    \/ MainGo /\ UNCHANGED parityVars
    \/ MainSpawnCloser /\ UNCHANGED parityVars
    \/ MainRecv /\ UNCHANGED parityVars
    \/ MainRangeEnd /\ UNCHANGED parityVars
    \/ \E id \in Workers : WorkerSend(id) /\ UNCHANGED parityVars
    \/ \E id \in Workers : WorkerDone(id) /\ UNCHANGED parityVars
    \/ CloserWait /\ UNCHANGED parityVars
    \/ CloserClose /\ UNCHANGED parityVars

NextParity ==
    \/ ParityIter
    \/ ParityExit
    \/ CallIsEven

Fairness ==
    /\ WF_vars(MainAdd /\ UNCHANGED parityVars)
    /\ WF_vars(MainGo /\ UNCHANGED parityVars)
    /\ WF_vars(MainSpawnCloser /\ UNCHANGED parityVars)
    /\ WF_vars(MainRecv /\ UNCHANGED parityVars)
    /\ WF_vars(MainRangeEnd /\ UNCHANGED parityVars)
    /\ \A id \in Workers : WF_vars(WorkerSend(id) /\ UNCHANGED parityVars)
    /\ \A id \in Workers : WF_vars(WorkerDone(id) /\ UNCHANGED parityVars)
    /\ WF_vars(CloserWait /\ UNCHANGED parityVars)
    /\ WF_vars(CloserClose /\ UNCHANGED parityVars)

Spec == Init /\ [][Next]_vars

FairSpec == Init /\ [][Next]_vars /\ Fairness

SpecN == InitN /\ [][Next]_vars

SpecParity == InitParity /\ [][NextParity]_vars

FairSpecParity == InitParity /\ [][NextParity]_vars /\ WF_vars(NextParity)

TypeOK ==
    /\ n \in 0..NumWorkers
    /\ mainPc \in {"idle", "loop", "go", "range", "done"}
    /\ i \in 1..(NumWorkers + 1)
    /\ wg \in 0..NumWorkers
    /\ workerPc \in [Workers -> {"none", "send", "deferred", "exit"}]
    /\ closerPc \in {"none", "wait", "close", "exit"}
    /\ closed \in BOOLEAN
    /\ Len(messages) <= Cap
    /\ closeCount \in 0..1
    /\ pPc \in {"idle", "for", "done"}
    /\ pI \in 1..(ParityLast + 1)
    /\ probeN \in ProbeInts
    /\ probeCalled \in BOOLEAN
    /\ probeRes \in BOOLEAN

(***************************************************************************)
(* Properties                                                              *)
(***************************************************************************)
Count(seq, v) == Cardinality({k \in 1..Len(seq) : seq[k] = v})

AllExited == \A id \in 1..n : workerPc[id] = "exit"

Drained == mainPc = "done"

Phase ==
    IF mainPc = "done" THEN "Drained"
    ELSE IF mainPc = "loop" /\ i = 1 /\ wg = 0 THEN "Idle"
    ELSE "Running"

C1_Expected ==
    <<"Worker 1 completed task", "Worker 2 completed task",
      "Worker 3 completed task">>

\* C1: whatever the interleaving, every received value is the message of a
\* launched worker, no worker's message is received twice, and when the range
\* loop ends exactly n values were received, one "Worker {id} completed task"
\* for each id in 1..n.
C1_ExactlyOnce ==
    /\ \A k \in 1..Len(received) : \E id \in 1..n : received[k] = C1_Expected[id]
    /\ \A id \in 1..n : Count(received, C1_Expected[id]) <= 1
    /\ Drained =>
          /\ Len(received) = n
          /\ \A id \in 1..n : Count(received, C1_Expected[id]) = 1

C1_Witness ==
    /\ mainPc = "done"
    /\ Len(received) = NumWorkers
    /\ received[1] = "Worker 2 completed task"

\* C2 as stated: in every state where the channel is closed the consumer has
\* already received all n results.
C2_ClosedImpliesAllReceived == closed => Len(received) = n

\* C2 amended: the channel is closed only after all n results were sent into
\* it (each is then either buffered or already received), and the consumer
\* observes the closure (its range loop ends) only after receiving all n.
C2_ClosedAfterAllSent ==
    /\ closed => Len(sent) = n /\ Len(received) + Len(messages) = n
    /\ Drained => closed /\ Len(received) = n /\ messages = <<>>

C2_Witness ==
    /\ closed
    /\ mainPc = "range"
    /\ Len(received) = 1
    /\ Len(messages) = NumWorkers - 1

\* C3: the channel is closed at most once (exactly once when main is done),
\* no runtime panic (send on closed channel, close of closed channel) is
\* reachable, and the channel is closed only after every worker has done its
\* send and its wg.Done.
C3_CloseOnce ==
    /\ panic = "none"
    /\ closeCount <= 1
    /\ closed <=> closeCount = 1
    /\ closed => AllExited /\ wg = 0 /\ Len(sent) = n
    /\ Drained => closeCount = 1

C3_Witness ==
    /\ closeCount = 1
    /\ closerPc = "exit"
    /\ AllExited
    /\ panic = "none"

\* C4: under weak fairness of every goroutine step, every execution
\* eventually reaches and stays in the state where all workers have finished,
\* the WaitGroup counter is zero, the channel is closed and the range loop has
\* ended.
C4_EventuallyDrained ==
    <>[](Drained /\ AllExited /\ wg = 0 /\ closed /\ Len(received) = n)

C4_Witness ==
    /\ mainPc = "done"
    /\ wg = 0
    /\ closerPc = "exit"
    /\ messages = <<>>

C7_Fifo ==
    received \o messages = [k \in 1..Len(sent) |-> C1_Expected[sent[k]]]

\* a receive order that is the reverse of the submission order
C7_Witness ==
    /\ mainPc = "done"
    /\ received = <<"Worker 3 completed task", "Worker 2 completed task",
                    "Worker 1 completed task">>

\* C8: a session only moves Idle -> Running -> Drained, and from Drained no
\* step changes the phase, the results received, the buffer or the closed
\* flag.
C8_DrainedTerminal ==
    [][/\ Phase = "Idle" => Phase' \in {"Idle", "Running"}
       /\ Phase = "Running" => Phase' \in {"Running", "Drained"}
       /\ Phase = "Drained" =>
             /\ Phase' = "Drained"
             /\ received' = received
             /\ messages' = messages
             /\ closed' = closed]_vars

C8_Witness ==
    /\ Phase = "Drained"
    /\ closed
    /\ Len(received) = n

\* C9: the buffer never holds more than Cap messages and a worker that is
\* about to send always finds room in the buffer, so no send blocks.
C9_SendNeverBlocks ==
    /\ Len(messages) <= Cap
    /\ Len(sent) <= Cap
    /\ \A id \in Workers :
          workerPc[id] = "send" /\ ~closed => Len(messages) < Cap

\* all workers finished and the channel closed before the consumer received
\* anything: the closed channel holds all the results
C9_Witness ==
    /\ closed
    /\ received = <<>>
    /\ Len(messages) = NumWorkers
    /\ AllExited

Divisible2(k) == \E q \in ProbeInts : k = 2 * q

C10_Expected ==
    <<"1 is odd\n", "2 is even\n", "3 is odd\n", "4 is even\n", "5 is odd\n">>

C10_Safe ==
    /\ Len(out) = pI - 1
    /\ pI <= ParityLast + 1
    /\ \A k \in 1..Len(out) : out[k] = C10_Expected[k]
    /\ pPc = "done" => out = C10_Expected
    /\ probeCalled => (probeRes <=> Divisible2(probeN))

\* C10: the parity loop prints the lines for 1, 2, 3, 4, 5 in this order,
\* once each (odd, even, odd, even, odd), then terminates; isEven(k) is true
\* exactly when k is divisible by 2, negative k included.
C10_ParityLoop == [](C10_Safe) /\ <>(pPc = "done")

C10_Witness ==
    /\ pPc = "done"
    /\ Len(out) = ParityLast
    /\ probeCalled
    /\ probeN < 0
    /\ ~probeRes
====
